---- MODULE Spec2Model ----
(***************************************************************************)
(* DomainCrawler.crawl of url_audit_app.py as a state machine, with        *)
(* URLMatcher and the part of main that calls crawl, classifies the        *)
(* discovered URLs and keeps the validation checklist.                     *)
(*                                                                         *)
(* A URL string is modelled by the components urlparse splits it into:     *)
(* scheme, netloc, path (a sequence of tokens, "/" being a token of its    *)
(* own, so that rstrip('/') and endswith(ext) are computed and not         *)
(* assumed), query and fragment.  `path` holds the text between the netloc *)
(* and the query, ";params" included, which urlparse splits off.           *)
(* `invalid` marks a string on which                                       *)
(* urlparse raises ValueError (such as "http://[bad"); for such a string   *)
(* `scheme` only records the text the string starts with.                  *)
(***************************************************************************)
EXTENDS Integers, Sequences, FiniteSets, TLC

\* ------------------------------------------------------------------ bounds
MaxDepthBound == 2
MaxPagesBound == 4

\* ------------------------------------------------------------ URL strings
U(s, n, p, q, f) ==
    [scheme |-> s, netloc |-> n, path |-> p, query |-> q, fragment |-> f,
     invalid |-> FALSE]

\* "http://[bad": urlparse raises ValueError("Invalid IPv6 URL")
BadUrl == [scheme |-> "http", netloc |-> "[bad", path |-> <<>>, query |-> "",
           fragment |-> "", invalid |-> TRUE]

\* "httpbad": no colon, so urlparse gives scheme '' netloc '' path 'httpbad'
HttpBad == U("", "", <<"httpbad">>, "", "")

\* tokens whose text begins with "http"
HttpWords == {"httpbad"}

\* str.startswith('http')
StartsWithHttp(u) ==
    \/ u.scheme \in {"http", "https"}
    \/ /\ u.scheme = ""
       /\ u.netloc = ""
       /\ u.path # <<>>
       /\ u.path[1] \in HttpWords

\* str.lower() on the netlocs of the universe
Lower(n) == IF n = "WWW.Ex.com" THEN "www.ex.com" ELSE n

\* str.replace('www.', '') on the (lowercased) netlocs of the universe
StripWww(n) ==
    CASE n = "www.ex.com" -> "ex.com"
      [] n = "www.other.com" -> "other.com"
      [] OTHER -> n

\* parsed.netloc.lower().replace('www.', '')
DomainOf(u) == StripWww(Lower(u.netloc))

EXCLUDED_EXTENSIONS == {".pdf", ".jpg", ".css", ".js", ".xml", ".zip"}

\* patterns of the form /word/ and of the form /word
EXCLUDED_SLASHED == {"wp-admin", "assets", "feed", "tag"}
EXCLUDED_PREFIX == {"login", "cart", "search", "privacy", "sitemap"}

\* path.rstrip('/')
RECURSIVE RStripSlash(_)
RStripSlash(p) ==
    IF p # <<>> /\ p[Len(p)] = "/" THEN RStripSlash(SubSeq(p, 1, Len(p) - 1))
    ELSE p

\* the positions of token t in p
Positions(p, t) == {i \in 1..Len(p) : p[i] = t}

Min(a, b) == IF a <= b THEN a ELSE b

Max(S) == CHOOSE x \in S : \A y \in S : y <= x
Least(S) == CHOOSE x \in S : \A y \in S : x <= y

\* urllib.parse._splitparams: the position of the first ";" after the last
\* "/", or 0 when there is none
ParamsAt(p) ==
    LET lastSlash == IF Positions(p, "/") = {} THEN 0 ELSE Max(Positions(p, "/"))
        semis == {i \in Positions(p, ";") : i > lastSlash}
    IN  IF semis = {} THEN 0 ELSE Least(semis)

\* urlparse(url).path and urlparse(url).params
ParsedPath(p) == IF ParamsAt(p) = 0 THEN p ELSE SubSeq(p, 1, ParamsAt(p) - 1)
ParsedParams(p) == IF ParamsAt(p) = 0 THEN << >> ELSE SubSeq(p, ParamsAt(p) + 1, Len(p))

\* path_lower.endswith(ext) for some ext of EXCLUDED_EXTENSIONS
HasExcludedExtension(u) ==
    LET path == ParsedPath(u.path)
    IN  path # <<>> /\ path[Len(path)] \in EXCLUDED_EXTENSIONS

\* re.search(pattern, full_url_lower) for some pattern of
\* EXCLUDED_PATH_PATTERNS (in this universe only paths hold pattern text)
MatchesExcludedPattern(u) ==
    \E i \in 1..Len(u.path) :
        /\ u.path[i] = "/"
        /\ i + 1 <= Len(u.path)
        /\ \/ u.path[i + 1] \in EXCLUDED_PREFIX
           \/ /\ u.path[i + 1] \in EXCLUDED_SLASHED
              /\ i + 2 <= Len(u.path)
              /\ u.path[i + 2] = "/"

\* _is_valid_url without its same-domain check
IsValidUrlAnyDomain(u, base_domain) ==
    IF u.invalid THEN FALSE
    ELSE IF u.scheme = "" \/ u.netloc = "" THEN FALSE
    ELSE IF HasExcludedExtension(u) THEN FALSE
    ELSE IF MatchesExcludedPattern(u) THEN FALSE
    ELSE TRUE

\* DomainCrawler._is_valid_url
IsValidUrl(u, base_domain) ==
    IF u.invalid THEN FALSE
    ELSE IF u.scheme = "" \/ u.netloc = "" THEN FALSE
    ELSE IF DomainOf(u) # base_domain THEN FALSE
    ELSE IF HasExcludedExtension(u) THEN FALSE
    ELSE IF MatchesExcludedPattern(u) THEN FALSE
    ELSE TRUE

\* DomainCrawler._normalize_url
NormalizeUrl(u) ==
    IF u.invalid THEN u
    ELSE LET path == RStripSlash(ParsedPath(u.path))
             params == ParsedParams(u.path)
         IN  [u EXCEPT !.fragment = "",
                       !.path = (IF path = <<>> THEN <<"/">> ELSE path)
                                \o (IF params = << >> THEN << >>
                                    ELSE <<";">> \o params)]

\* the directory part of a base path: everything up to its last "/"
RECURSIVE DirOf(_)
DirOf(p) ==
    IF p = <<>> THEN <<"/">>
    ELSE IF p[Len(p)] = "/" THEN p
    ELSE DirOf(SubSeq(p, 1, Len(p) - 1))

\* urllib.parse.urljoin(base, href); raises ValueError on an invalid href
UrlJoinRaises(base, href) == base.invalid \/ href.invalid

UrlJoin(base, href) ==
    IF href.scheme # "" THEN href
    ELSE IF href.netloc # "" THEN [href EXCEPT !.scheme = base.scheme]
    ELSE IF href.path = <<>> THEN
        [base EXCEPT !.query = IF href.query # "" THEN href.query ELSE base.query,
                     !.fragment = href.fragment]
    ELSE IF href.path[1] = "/" THEN
        [href EXCEPT !.scheme = base.scheme, !.netloc = base.netloc]
    ELSE
        [href EXCEPT !.scheme = base.scheme, !.netloc = base.netloc,
                     !.path = DirOf(base.path) \o href.path]

\* -------------------------------------------------- the sites being crawled
Ex(p) == U("http", "ex.com", p, "", "")
Other(p) == U("http", "other.com", p, "", "")
Rel(p) == U("", "", p, "", "")

PageA == Ex(<<"/", "a">>)
PageB == Ex(<<"/", "b">>)
PageC == Ex(<<"/", "c">>)
PageD == Ex(<<"/", "d">>)
PageE == Ex(<<"/", "e">>)
PageP == Ex(<<"/", "p">>)
DocPdf == Ex(<<"/", "doc", ".pdf">>)
OtherC == Other(<<"/", "c">>)
OtherD == Other(<<"/", "d">>)
FtpF == U("ftp", "ex.com", <<"/", "f">>, "", "")
\* href="" (skipped by `if not href`)
EmptyHref == Rel(<<>>)

\* a page whose URL matches IR_CONTENT_PATTERNS (r'news')
PageNews == Ex(<<"/", "news">>)

\* "http://ex.com/a/;p/"
ParamUrl == Ex(<<"/", "a", "/", ";", "p", "/">>)

Sites == {"tree", "errors", "badhref", "chain", "multi", "utm", "ir"}

\* the hrefs of the <a> tags of the page served for url, in document order
Links(s, url) ==
    LET d == DomainOf(url)
        p == url.path
    IN  CASE s = "tree" /\ d = "ex.com" /\ p = <<"/", "a">> ->
               << Rel(<<"/", "b">>), OtherC, DocPdf,
                  U("http", "ex.com", <<"/", "c">>, "", "top"), EmptyHref,
                  Ex(<<"/", "login">>), FtpF >>
          [] s = "tree" /\ d = "ex.com" /\ p = <<"/", "b">> ->
               << Ex(<<"/", "c", "/">>), Rel(<<"d">>),
                  U("http", "www.ex.com", <<"/", "a">>, "", "") >>
          [] s = "tree" /\ d = "ex.com" /\ p = <<"/", "c">> ->
               << Rel(<<"/", "d">>), Ex(<<"/", "assets", "/", "x">>) >>
          [] s = "tree" /\ d = "ex.com" /\ p = <<"/", "d">> ->
               << Rel(<<"/", "e">>) >>
          [] s = "errors" /\ d = "ex.com" /\ p = <<"/", "a">> ->
               << PageB, PageC, PageD >>
          [] s = "errors" /\ d = "ex.com" /\ p = <<"/", "b">> ->
               << Ex(<<"/", "x">>) >>
          [] s = "errors" /\ d = "ex.com" /\ p = <<"/", "c">> ->
               << Ex(<<"/", "y">>) >>
          [] s = "errors" /\ d = "ex.com" /\ p = <<"/", "d">> ->
               << Ex(<<"/", "z">>) >>
          [] s = "badhref" /\ d = "ex.com" /\ p = <<"/", "a">> ->
               << PageB, BadUrl, PageC >>
          [] s = "badhref" /\ d = "ex.com" /\ p = <<"/", "b">> ->
               << PageC >>
          [] s = "chain" /\ d = "ex.com" /\ Len(p) >= 2 /\ p[2] = "p" ->
               << [url EXCEPT !.path = @ \o <<"1">>],
                  [url EXCEPT !.path = @ \o <<"1", "1">>] >>
          [] s = "multi" /\ d = "ex.com" /\ p = <<"/", "a">> ->
               << OtherD, PageB >>
          [] s = "multi" /\ d = "other.com" /\ p = <<"/", "c">> ->
               << OtherD, PageB >>
          [] s = "utm" /\ d = "ex.com" /\ p = <<"/", "a">> ->
               << PageB, U("http", "ex.com", <<"/", "b">>, "utm_source=x", ""),
                  U("http", "ex.com", <<"/", "b">>, "id=1", "") >>
          [] s = "ir" /\ d = "ex.com" /\ p = <<"/", "a">> ->
               << PageB, PageNews >>
          [] OTHER -> << >>

\* how session.get(url) ends: "ok" (200, text/html), "non200", "nonhtml",
\* or "error" (a requests.exceptions.RequestException)
Status(s, url) ==
    IF url.invalid \/ url.scheme \notin {"http", "https"} \/ url.netloc = ""
    THEN "error"
    ELSE LET d == DomainOf(url)
             p == url.path
         IN  CASE HasExcludedExtension(url) -> "nonhtml"
               [] s = "errors" /\ p = <<"/", "b">> -> "non200"
               [] s = "errors" /\ p = <<"/", "c">> -> "nonhtml"
               [] s = "errors" /\ p = <<"/", "d">> -> "error"
               [] s = "chain" /\ (Len(p) < 2 \/ p[2] # "p") -> "non200"
               [] d \notin {"ex.com", "other.com"} -> "error"
               [] OTHER -> "ok"

\* the start_urls the crawl is called with
SeedLists ==
    { << >>,
      << PageA >>,
      << U("http", "www.ex.com", <<"/", "a", "/">>, "", "top") >>,
      << PageA, PageA >>,
      << HttpBad, PageA >>,
      << PageA, HttpBad >>,
      << BadUrl, PageA >>,
      << PageA, BadUrl >>,
      << PageA, OtherC >>,
      << DocPdf, PageA >>,
      << FtpF >>,
      << PageP >>,
      << ParamUrl >> }

\* ------------------------------------------- the tracked list and URLMatcher
\* An entry of after_save_pageurls: a URL string or a prefixed rule
\* ("cp:" + body), with the whitespace around it.
Lit(u) ==
    [kind |-> "url", url |-> u, prefix |-> "", body |-> "",
     lead |-> FALSE, trail |-> FALSE]
Padded(u, l, t) == [Lit(u) EXCEPT !.lead = l, !.trail = t]
Rule(pre, b) ==
    [kind |-> "rule", url |-> EmptyHref, prefix |-> pre, body |-> b,
     lead |-> FALSE, trail |-> FALSE]

\* str.strip()
EntryStrip(e) == [e EXCEPT !.lead = FALSE, !.trail = FALSE]

\* str.startswith('http') on an entry as it stands
EntryStartsWithHttp(e) == ~e.lead /\ e.kind = "url" /\ StartsWithHttp(e.url)

IsHttpEntry(e) == EntryStartsWithHttp(EntryStrip(e))

\* URLMatcher.extract_http_urls
ExtractHttpUrls(urls) ==
    [i \in 1..Len(SelectSeq(urls, IsHttpEntry)) |-> SelectSeq(urls, IsHttpEntry)[i].url]

\* after_urls[:5]
FirstFive(urls) == SubSeq(urls, 1, Min(5, Len(urls)))

RULE_PREFIXES == {"ev", "cp", "df", "if"}

IsRuleEntry(e) == e.kind = "rule" /\ e.prefix \in RULE_PREFIXES

\* URLMatcher.extract_regex_patterns
ExtractRegexPatterns(urls) ==
    [i \in 1..Len(SelectSeq(urls, IsRuleEntry)) |->
        EntryStrip(SelectSeq(urls, IsRuleEntry)[i])]

\* str.rstrip('/') on a whole URL string, which ends with its fragment, else
\* its query, else its path (no query or fragment here ends with a slash)
StrRStripSlash(u) ==
    IF u.fragment # "" \/ u.query # "" THEN u
    ELSE [u EXCEPT !.path = RStripSlash(@)]

\* str.replace('://www.', '://')
ReplaceSchemeWww(u) ==
    IF u.scheme = "" THEN u
    ELSE [u EXCEPT !.netloc = CASE @ = "www.ex.com" -> "ex.com"
                               [] @ = "www.other.com" -> "other.com"
                               [] OTHER -> @]

\* URLMatcher.url_matches_exact
UrlMatchesExact(discovered_url, after_urls) ==
    LET norm_discovered == StrRStripSlash(discovered_url)
    IN  \E i \in DOMAIN after_urls :
            /\ EntryStartsWithHttp(after_urls[i])
            /\ LET norm_after == StrRStripSlash(EntryStrip(after_urls[i]).url)
               IN  \/ norm_discovered = norm_after
                   \/ ReplaceSchemeWww(norm_discovered) = ReplaceSchemeWww(norm_after)

\* the regex bodies of the universe: re.compile raises re.error on "("
RegexCompiles(body) == body # "("

EndsWithSlashB(p) == Len(p) >= 2 /\ p[Len(p) - 1] = "/" /\ p[Len(p)] = "b"

\* re.search(body, url_path)
RegexSearchPath(body, path) ==
    CASE body = "" -> TRUE
      [] body = "/b$" -> EndsWithSlashB(path)
      [] body = "^http://ex[.]com/c" -> FALSE
      [] OTHER -> FALSE

\* re.search(body, discovered_url)
RegexSearchFull(body, u) ==
    CASE body = "" -> TRUE
      [] body = "/b$" -> u.fragment = "" /\ u.query = "" /\ EndsWithSlashB(u.path)
      [] body = "^http://ex[.]com/c" ->
            /\ ~u.invalid
            /\ u.scheme = "http"
            /\ u.netloc = "ex.com"
            /\ Len(u.path) >= 2
            /\ u.path[1] = "/"
            /\ u.path[2] = "c"
      [] OTHER -> FALSE

\* `return None`
NoMatch == [Rule("", "") EXCEPT !.kind = "none"]

\* the empty-body test always failing
NeverSkipsBody(body) == FALSE

\* `if not regex_part: continue`
SkipsEmptyBody(body) == body = ""

\* `except re.error` ending the search with no match
AbortOnRegexError(rest) == NoMatch

\* `except re.error: continue`: the search goes on with the rules left
OnRegexError(rest) == rest

\* URLMatcher.url_matches_regex_pattern, for the patterns from position i on
RECURSIVE MatchFrom(_, _, _)
MatchFrom(discovered_url, regex_patterns, i) ==
    IF i > Len(regex_patterns) THEN NoMatch
    ELSE LET body == regex_patterns[i].body
             rest == MatchFrom(discovered_url, regex_patterns, i + 1)
         IN  IF SkipsEmptyBody(body) THEN rest
             ELSE IF ~RegexCompiles(body) THEN OnRegexError(rest)
             ELSE IF \/ RegexSearchPath(body, ParsedPath(discovered_url.path))
                     \/ RegexSearchFull(body, discovered_url)
                  THEN regex_patterns[i]
             ELSE rest

UrlMatchesRegexPattern(discovered_url, regex_patterns) ==
    MatchFrom(discovered_url, regex_patterns, 1)

\* URLMatcher.classify_discovered_url: (is_covered, reason)
ClassifyDiscoveredUrl(discovered_url, after_urls, regex_patterns) ==
    IF UrlMatchesExact(discovered_url, after_urls)
    THEN [is_covered |-> TRUE, reason |-> "Already added", pattern |-> NoMatch]
    ELSE LET matching_pattern == UrlMatchesRegexPattern(discovered_url, regex_patterns)
         IN  IF matching_pattern # NoMatch
             THEN [is_covered |-> TRUE,
                   reason |-> "Sub page - scraped with ev/cp regex",
                   pattern |-> matching_pattern]
             ELSE [is_covered |-> FALSE, reason |-> "Potentially missing",
                   pattern |-> NoMatch]

\* the order of the tokens as strings
TokRank(t) ==
    CASE t = "" -> 0 [] t = ".pdf" -> 1 [] t = "/" -> 2 [] t = "1" -> 3
      [] t = ";" -> 4 [] t = "?" -> 5 [] t = "[bad" -> 6 [] t = "a" -> 7
      [] t = "assets" -> 8 [] t = "b" -> 9 [] t = "c" -> 10 [] t = "d" -> 11
      [] t = "doc" -> 12 [] t = "e" -> 13 [] t = "ex.com" -> 14
      [] t = "f" -> 15 [] t = "ftp" -> 16 [] t = "http" -> 17
      [] t = "httpbad" -> 18 [] t = "id=1" -> 19 [] t = "login" -> 20
      [] t = "news" -> 21 [] t = "other.com" -> 22 [] t = "p" -> 23
      [] t = "top" -> 24 [] t = "utm_source=x" -> 25
      [] t = "www.ex.com" -> 26 [] t = "x" -> 27 [] t = "y" -> 28
      [] t = "z" -> 29
      [] OTHER -> 30

\* the tokens of a URL string, in the order of the text
UrlTokens(u) ==
    (IF u.scheme = "" THEN << >> ELSE << u.scheme, u.netloc >>)
    \o u.path
    \o (IF u.query = "" THEN << >> ELSE << "?", u.query >>)

\* a < b for strings, token by token
RECURSIVE TokensLess(_, _)
TokensLess(a, b) ==
    IF b = << >> THEN FALSE
    ELSE IF a = << >> THEN TRUE
    ELSE IF TokRank(Head(a)) # TokRank(Head(b)) THEN TokRank(Head(a)) < TokRank(Head(b))
    ELSE TokensLess(Tail(a), Tail(b))

\* sorted(S)
RECURSIVE Sorted(_)
Sorted(S) ==
    IF S = {} THEN << >>
    ELSE LET m == CHOOSE u \in S :
                    \A v \in S \ {u} : TokensLess(UrlTokens(u), UrlTokens(v))
         IN  << m >> \o Sorted(S \ {m})

\* the after_save_pageurls lists of the audited record
TrackedLists ==
    { << >>,
      << Lit(PageA) >>,
      << Lit(U("http", "www.ex.com", <<"/", "a", "/">>, "", "top")) >>,
      << Lit(PageA), Lit(PageA) >>,
      << Lit(HttpBad), Lit(PageA) >>,
      << Lit(PageA), Lit(HttpBad) >>,
      << Lit(BadUrl), Lit(PageA) >>,
      << Lit(PageA), Lit(BadUrl) >>,
      << Lit(PageA), Lit(OtherC) >>,
      << Lit(DocPdf), Lit(PageA) >>,
      << Lit(FtpF) >>,
      << Lit(PageP) >>,
      << Lit(ParamUrl) >>,
      << Padded(PageA, TRUE, FALSE) >>,
      << Padded(PageA, FALSE, TRUE), Rule("cp", "") >>,
      << Rule("cp", "("), Lit(PageA), Rule("ev", "/b$"), Rule("zz", "") >>,
      << Lit(PageA), Rule("cp", "^http://ex[.]com/c"), Rule("cp", "("),
         Rule("ev", "/b$"), Rule("if", ""), Lit(PageD) >> }

\* the tokens of the universe that a pattern of IR_CONTENT_PATTERNS matches
IR_TOKENS == {"news"}

\* DomainCrawler.is_ir_relevant
IsIrRelevant(u) == \E i \in DOMAIN UrlTokens(u) : UrlTokens(u)[i] \in IR_TOKENS

\* the first option of every selectbox
Unselected == "-- Select validation --"

CHECKLIST_OPTIONS ==
    {"Already added", "Added in ticker issue sheet", "Added with template",
     "Sub page - scraped with ev/cp regex", "Not relevant / Ignore",
     "Needs investigation"}

\* the options a selection is drawn from
SelectedOptions == {"Already added"}

\* `display_list = ir_uncovered if ir_only else uncovered`
DisplayListOf(results, ir) ==
    LET Shown(r) == ~r.is_covered /\ (ir => r.is_ir_relevant)
    IN  SelectSeq(results, Shown)

\* the selectbox loop over a display list of n entries: every key missing_i,
\* i < n, is written with its selectbox's value, which is the stored value if
\* there is one; the other keys stay
Render(checklist, n) ==
    [i \in DOMAIN checklist \cup 0..(n - 1) |->
        IF i \in DOMAIN checklist THEN checklist[i] ELSE Unselected]

\* ------------------------------------------------------------------ state
VARIABLES
    start_urls,     \* crawl's argument
    max_depth,      \* self.max_depth
    max_pages,      \* self.max_pages
    site,           \* the site the requests are answered by
    pc,             \* "start", "loop", "fetch", "done" (crawl returned),
                    \* "raised", "classified" (main has its results)
    base_domain,
    visited,
    discovered,
    queue,          \* deque of <<url, depth>>
    pages_crawled,
    current,        \* <<current_url, depth>> of the iteration in progress
    fetchLog,       \* history: the <<url, depth>> of every GET issued, in order
    depthOf,        \* history: url -> depth at which it was first recorded
    after_urls,     \* data["after_save_pageurls"]
    crawl_results,  \* st.session_state.crawl_results
    status_text,    \* what main shows when crawl has returned
    ir_only,        \* the "Show only IR-relevant URLs" checkbox
    checklist_state \* st.session_state.checklist_state: i -> value of missing_i

vars == << start_urls, max_depth, max_pages, site, pc, base_domain, visited,
           discovered, queue, pages_crawled, current, fetchLog, depthOf,
           after_urls, crawl_results, status_text, ir_only, checklist_state >>

params == << start_urls, max_depth, max_pages, site, after_urls >>

mainVars == << crawl_results, status_text, ir_only, checklist_state >>

crawlVars == << pc, base_domain, visited, discovered, queue, pages_crawled,
                current, fetchLog, depthOf >>

NoResults == << >>
NoText == << >>
EmptyChecklist == [i \in {} |-> Unselected]

NoDomain == "<None>"
NoCurrent == << >>

\* main calls crawl with extract_http_urls(after_urls[:5]); crawl itself
\* reads only the entries of its argument that start with 'http'
Init ==
    /\ start_urls \in SeedLists
    /\ after_urls \in TrackedLists
    /\ ExtractHttpUrls(FirstFive(after_urls)) = SelectSeq(start_urls, StartsWithHttp)
    /\ crawl_results = NoResults
    /\ status_text = NoText
    /\ ir_only = TRUE
    /\ checklist_state = EmptyChecklist
    /\ max_depth \in (-1)..MaxDepthBound
    /\ max_pages \in 0..MaxPagesBound
    /\ site \in Sites
    /\ pc = "start"
    /\ base_domain = NoDomain
    /\ visited = {}
    /\ discovered = {}
    /\ queue = << >>
    /\ pages_crawled = 0
    /\ current = NoCurrent
    /\ fetchLog = << >>
    /\ depthOf = << >>

\* `isinstance(url, str) and url.startswith('http')`, as a filter of the list
HttpSeeds(urls) == SelectSeq(urls, StartsWithHttp)

\* the seeding loop: every http seed, normalized, at depth 0
SeedQueue(urls) ==
    [i \in 1..Len(HttpSeeds(urls)) |-> << NormalizeUrl(HttpSeeds(urls)[i]), 0 >>]

Range(f) == {f[i] : i \in DOMAIN f}

\* `if not start_urls: return set()`
CrawlEmpty ==
    /\ pc = "start"
    /\ start_urls = << >>
    /\ pc' = "done"
    /\ UNCHANGED << params, mainVars, base_domain, visited, discovered, queue,
                    pages_crawled, current, fetchLog, depthOf >>

\* urlparse(url) of the first http seed raises: crawl ends with ValueError
CrawlRaise ==
    /\ pc = "start"
    /\ HttpSeeds(start_urls) # << >>
    /\ HttpSeeds(start_urls)[1].invalid
    /\ pc' = "raised"
    /\ UNCHANGED << params, mainVars, base_domain, visited, discovered, queue,
                    pages_crawled, current, fetchLog, depthOf >>

\* `if not base_domain: return set()`: no http seed, or an empty netloc
CrawlNoBase ==
    /\ pc = "start"
    /\ start_urls # << >>
    /\ IF HttpSeeds(start_urls) = << >> THEN TRUE
       ELSE /\ ~HttpSeeds(start_urls)[1].invalid
            /\ DomainOf(HttpSeeds(start_urls)[1]) = ""
    /\ pc' = "done"
    /\ UNCHANGED << params, mainVars, base_domain, visited, discovered, queue,
                    pages_crawled, current, fetchLog, depthOf >>

\* base domain from the first http seed, then the seeding loop
CrawlSeed ==
    /\ pc = "start"
    /\ HttpSeeds(start_urls) # << >>
    /\ ~HttpSeeds(start_urls)[1].invalid
    /\ DomainOf(HttpSeeds(start_urls)[1]) # ""
    /\ base_domain' = DomainOf(HttpSeeds(start_urls)[1])
    /\ queue' = SeedQueue(start_urls)
    /\ discovered' = {e[1] : e \in Range(SeedQueue(start_urls))}
    /\ depthOf' = [u \in discovered' |-> 0]
    /\ pc' = "loop"
    /\ UNCHANGED << params, mainVars, visited, pages_crawled, current, fetchLog >>

\* the loop condition without its page budget
LoopGuardNoBudget == queue # << >>

\* `while queue and pages_crawled < self.max_pages`
LoopGuard == queue # << >> /\ pages_crawled < max_pages

\* the visited check always failing
NeverVisited(url) == FALSE

\* `if current_url in visited`
AlreadyVisited(url) == url \in visited

\* the depth check at the head of the loop always failing
DepthNeverExceeded(depth) == FALSE

\* `if depth > self.max_depth`
DepthExceeded(depth) == depth > max_depth

\* the loop ends and crawl returns discovered
LoopExit ==
    /\ pc = "loop"
    /\ ~LoopGuard
    /\ pc' = "done"
    /\ UNCHANGED << params, mainVars, base_domain, visited, discovered, queue,
                    pages_crawled, current, fetchLog, depthOf >>

\* popleft, then `continue` on a visited url
SkipVisited ==
    /\ pc = "loop"
    /\ LoopGuard
    /\ AlreadyVisited(Head(queue)[1])
    /\ queue' = Tail(queue)
    /\ current' = Head(queue)
    /\ UNCHANGED << params, mainVars, pc, base_domain, visited, discovered,
                    pages_crawled, fetchLog, depthOf >>

\* popleft, then `continue` on an entry deeper than max_depth
SkipDepth ==
    /\ pc = "loop"
    /\ LoopGuard
    /\ ~AlreadyVisited(Head(queue)[1])
    /\ DepthExceeded(Head(queue)[2])
    /\ queue' = Tail(queue)
    /\ current' = Head(queue)
    /\ UNCHANGED << params, mainVars, pc, base_domain, visited, discovered,
                    pages_crawled, fetchLog, depthOf >>

\* popleft, visited.add, pages_crawled += 1: the url is claimed for fetching
Claim ==
    /\ pc = "loop"
    /\ LoopGuard
    /\ ~AlreadyVisited(Head(queue)[1])
    /\ ~DepthExceeded(Head(queue)[2])
    /\ queue' = Tail(queue)
    /\ current' = Head(queue)
    /\ visited' = visited \cup {Head(queue)[1]}
    /\ pages_crawled' = pages_crawled + 1
    /\ pc' = "fetch"
    /\ UNCHANGED << params, mainVars, base_domain, discovered, fetchLog, depthOf >>

\* the response checks without the status code check
IsSuccessAnyStatusCode(status) == status \in {"ok", "non200"}

\* status 200 and an html content type
IsSuccess(status) == status = "ok"

\* a link accepted without being recorded
DiscoverNothing(disc, url) == disc

\* `discovered.add(normalized)`
Discover(disc, url) == disc \cup {url}

\* the append test without its depth part
MayEnqueueAnyDepth(url, depth) == url \notin visited

\* `normalized not in visited and depth + 1 <= self.max_depth`
MayEnqueue(url, depth) == url \notin visited /\ depth + 1 <= max_depth

\* queue.append at the front of the deque
EnqueueFront(q, e) == << e >> \o q

\* `queue.append((normalized, depth + 1))`
Enqueue(q, e) == Append(q, e)

\* the body of `for tag in soup.find_all('a', href=True)` for the hrefs from
\* position i on; st holds discovered, queue and depthOf.  An exception of
\* urljoin leaves the for loop (`except Exception: continue`).
RECURSIVE ProcessLinks(_, _, _, _, _)
ProcessLinks(hrefs, i, url, depth, st) ==
    IF i > Len(hrefs) THEN st
    ELSE IF hrefs[i] = EmptyHref THEN ProcessLinks(hrefs, i + 1, url, depth, st)
    ELSE IF UrlJoinRaises(url, hrefs[i]) THEN st
    ELSE LET normalized == NormalizeUrl(UrlJoin(url, hrefs[i]))
         IN  IF IsValidUrl(normalized, base_domain)
             THEN ProcessLinks(hrefs, i + 1, url, depth,
                    [discovered |-> Discover(st.discovered, normalized),
                     depthOf |->
                        IF normalized \in DOMAIN st.depthOf THEN st.depthOf
                        ELSE [u \in DOMAIN st.depthOf \cup {normalized} |->
                                IF u = normalized THEN depth + 1
                                ELSE st.depthOf[u]],
                     queue |->
                        IF MayEnqueue(normalized, depth)
                        THEN Enqueue(st.queue, << normalized, depth + 1 >>)
                        ELSE st.queue])
             ELSE ProcessLinks(hrefs, i + 1, url, depth, st)

\* the GET fails, or answers without a 200 html page: `continue`
FetchFail ==
    /\ pc = "fetch"
    /\ ~IsSuccess(Status(site, current[1]))
    /\ fetchLog' = Append(fetchLog, current)
    /\ pc' = "loop"
    /\ UNCHANGED << params, mainVars, base_domain, visited, discovered, queue,
                    pages_crawled, current, depthOf >>

\* the GET answers a 200 html page, whose links are processed
FetchOk ==
    /\ pc = "fetch"
    /\ IsSuccess(Status(site, current[1]))
    /\ fetchLog' = Append(fetchLog, current)
    /\ LET st == ProcessLinks(Links(site, current[1]), 1, current[1], current[2],
                     [discovered |-> discovered, queue |-> queue,
                      depthOf |-> depthOf])
       IN  /\ discovered' = st.discovered
           /\ queue' = st.queue
           /\ depthOf' = st.depthOf
    /\ pc' = "loop"
    /\ UNCHANGED << params, mainVars, base_domain, visited, pages_crawled, current >>

\* crawl returning the visited set
ReturnVisited(disc, vis) == vis

\* `return discovered`
CrawlReturnValue(disc, vis) == disc

\* main after crawl has returned: the status line, then one result for each
\* URL of sorted(discovered_urls).  main gets here only if it called crawl:
\* http_urls is not empty and extract_domains_from_urls(http_urls) did not
\* raise.
Classify ==
    /\ pc = "done"
    /\ ExtractHttpUrls(FirstFive(after_urls)) # << >>
    /\ \A i \in DOMAIN ExtractHttpUrls(FirstFive(after_urls)) :
          ~ExtractHttpUrls(FirstFive(after_urls))[i].invalid
    /\ status_text' = << "Crawl complete!",
                          Cardinality(CrawlReturnValue(discovered, visited)) >>
    /\ LET regex_patterns == ExtractRegexPatterns(after_urls)
           urls == Sorted(CrawlReturnValue(discovered, visited))
       IN  crawl_results' =
              [i \in 1..Len(urls) |->
                  LET c == ClassifyDiscoveredUrl(urls[i], after_urls, regex_patterns)
                  IN  [url |-> urls[i], is_covered |-> c.is_covered,
                       auto_reason |-> c.reason, pattern |-> c.pattern,
                       is_ir_relevant |-> IsIrRelevant(urls[i])]]
    /\ checklist_state' =
          Render(checklist_state, Len(DisplayListOf(crawl_results', ir_only)))
    /\ pc' = "classified"
    /\ UNCHANGED << params, ir_only, base_domain, visited, discovered, queue,
                    pages_crawled, current, fetchLog, depthOf >>

\* the IR-only checkbox is clicked: the script runs again and renders the
\* other display list
ToggleIrOnly ==
    /\ pc = "classified"
    /\ ir_only' = ~ir_only
    /\ checklist_state' =
          Render(checklist_state, Len(DisplayListOf(crawl_results, ir_only')))
    /\ UNCHANGED << params, crawlVars, crawl_results, status_text >>

\* a value is chosen in the selectbox of a displayed entry: the script runs
\* again and stores it under missing_i
SelectValidation ==
    /\ pc = "classified"
    /\ \E i \in 0..(Len(DisplayListOf(crawl_results, ir_only)) - 1),
          v \in {Unselected} \cup SelectedOptions :
          /\ checklist_state[i] # v
          /\ checklist_state' = [checklist_state EXCEPT ![i] = v]
    /\ UNCHANGED << params, crawlVars, crawl_results, status_text, ir_only >>

\* "Run Audit" on the same record: crawl_results and checklist_state are
\* reset, and crawl can be called again
RunAudit ==
    /\ pc = "classified"
    /\ crawl_results' = NoResults
    /\ checklist_state' = EmptyChecklist
    /\ status_text' = NoText
    /\ pc' = "start"
    /\ base_domain' = NoDomain
    /\ visited' = {}
    /\ discovered' = {}
    /\ queue' = << >>
    /\ pages_crawled' = 0
    /\ current' = NoCurrent
    /\ fetchLog' = << >>
    /\ depthOf' = << >>
    /\ UNCHANGED << params, ir_only >>

Next ==
    \/ Classify
    \/ ToggleIrOnly
    \/ SelectValidation
    \/ RunAudit
    \/ CrawlEmpty
    \/ CrawlRaise
    \/ CrawlNoBase
    \/ CrawlSeed
    \/ LoopExit
    \/ SkipVisited
    \/ SkipDepth
    \/ Claim
    \/ FetchFail
    \/ FetchOk

Spec == Init /\ [][Next]_vars

\* every step of crawl is eventually taken: the GET has a timeout
FairSpec == Spec /\ WF_vars(Next)

\* ----------------------------------------------------------- properties
FetchedUrls == {e[1] : e \in Range(fetchLog)}
QueuedUrls == {e[1] : e \in Range(queue)}

\* URLMatcher.extract_domains_from_urls: the domains of the http entries
\* (an entry urlparse cannot split has no host)
ExtractDomainsFromUrls(urls) ==
    {DomainOf(u) : u \in {v \in Range(HttpSeeds(urls)) : ~v.invalid}}

AllowedDomainSet == ExtractDomainsFromUrls(start_urls)

HasHost(u) == ~u.invalid /\ u.netloc # ""

\* the normalized targets of the hrefs of the page served for url that
\* urljoin can resolve
ResolvedLinks(url) ==
    {NormalizeUrl(UrlJoin(url, h)) :
        h \in {g \in Range(Links(site, url)) : g # EmptyHref /\ ~UrlJoinRaises(url, g)}}

\* C1: at every moment of a crawl the visited set holds at most max_pages
\* URLs.
C1_BudgetBound == Cardinality(visited) <= max_pages

\* the budget ends a crawl whose frontier still holds entries
C1_Witness ==
    /\ pc = "done"
    /\ max_pages >= 2
    /\ Cardinality(visited) = max_pages
    /\ queue # << >>

\* C2: no URL has two GETs issued for it, every URL a GET was issued for is
\* in visited, and at the moment a GET is about to be issued its URL is
\* already in visited and has had no GET yet.
C2_FetchAtMostOnce ==
    /\ \A i, j \in DOMAIN fetchLog :
          fetchLog[i][1] = fetchLog[j][1] => i = j
    /\ FetchedUrls \subseteq visited
    /\ pc = "fetch" => current[1] \in visited /\ current[1] \notin FetchedUrls

\* a URL that was fetched is at the head of the frontier once more
C2_Witness ==
    /\ pc = "loop"
    /\ LoopGuard
    /\ Head(queue)[1] \in FetchedUrls

\* C3: when crawl has returned, every discovered URL that has a host has its
\* www-stripped host among the www-stripped hosts of the http seeds.
C3_DomainScoping ==
    pc = "done" =>
        \A u \in discovered : HasHost(u) => DomainOf(u) \in AllowedDomainSet

\* crawl has returned after fetching a page that links to another domain
C3_Witness ==
    /\ pc = "done"
    /\ \E e \in Range(fetchLog) :
          /\ IsSuccess(Status(site, e[1]))
          /\ \E n \in ResolvedLinks(e[1]) :
                HasHost(n) /\ DomainOf(n) \notin AllowedDomainSet

\* C4: no URL of the discovered set or of the frontier has a path ending in
\* an excluded extension or matches an excluded path pattern.
C4_ExtensionPathExclusion ==
    \A u \in discovered \cup QueuedUrls :
        ~HasExcludedExtension(u) /\ ~MatchesExcludedPattern(u)

\* C5 as stated: for max_depth >= 0, every discovered URL was first recorded
\* at a depth of at most max_depth.
C5_DepthBound ==
    max_depth >= 0 => \A u \in DOMAIN depthOf : depthOf[u] <= max_depth

\* C5 as amended: every discovered URL has a recorded depth, which is at
\* most max_depth + 1 (links of a page fetched at depth max_depth are
\* recorded, one level deeper than any page that is fetched).
C5_DepthBoundAmended ==
    /\ DOMAIN depthOf = discovered
    /\ \A u \in discovered : depthOf[u] <= max_depth + 1

\* a page fetched at depth max_depth >= 1 had a link recorded, at depth
\* max_depth + 1
C5_Witness ==
    /\ max_depth >= 1
    /\ \E u \in DOMAIN depthOf : depthOf[u] = max_depth + 1

\* C6: a GET that ends in a transport error, a status other than 200 or a
\* content type other than html changes neither the discovered set nor the
\* frontier nor the visited set, the loop goes on with the entries left, and
\* no second GET is ever issued for that URL.
C6_FetchFailureAddsNothing ==
    /\ [][ (pc = "fetch" /\ Status(site, current[1]) # "ok") =>
              /\ discovered' = discovered
              /\ queue' = queue
              /\ visited' = visited
              /\ pc' = "loop" ]_vars
    /\ [](\A i, j \in DOMAIN fetchLog :
             (fetchLog[i][1] = fetchLog[j][1] /\ Status(site, fetchLog[i][1]) # "ok")
                => i = j)

\* a transport error, a non-200 answer and a non-html answer have all
\* happened, on pages that carry links, and the crawl has gone on
C6_Witness ==
    /\ \A st \in {"error", "non200", "nonhtml"} :
          \E e \in Range(fetchLog) :
              Status(site, e[1]) = st /\ Links(site, e[1]) # << >>
    /\ pc = "done"

\* a string that parses as an absolute http(s) URL
IsAbsoluteHttp(u) ==
    ~u.invalid /\ u.scheme \in {"http", "https"} /\ u.netloc # ""

GoodSeeds == SelectSeq(start_urls, IsAbsoluteHttp)

\* C7: whatever seed of the list is not an absolute http(s) URL, crawl raises
\* no exception, that seed is neither in the frontier nor in the discovered
\* set, and the other seeds are crawled: with a budget of at least one page
\* and max_depth >= 0, the first good seed has been fetched when crawl
\* returns.
C7_BadSeedDropped ==
    /\ pc # "raised"
    /\ \A i \in DOMAIN start_urls :
          ~IsAbsoluteHttp(start_urls[i]) =>
              /\ NormalizeUrl(start_urls[i]) \notin discovered
              /\ NormalizeUrl(start_urls[i]) \notin QueuedUrls
    /\ (pc = "done" /\ max_pages >= 1 /\ max_depth >= 0 /\ GoodSeeds # << >>)
          => NormalizeUrl(GoodSeeds[1]) \in FetchedUrls

\* C8: crawl eventually returns, and when it has returned the frontier is
\* empty or max_pages is reached or every entry left exceeds max_depth.
C8_Termination ==
    /\ <>(pc = "done")
    /\ [](pc = "done" =>
            \/ queue = << >>
            \/ pages_crawled >= max_pages
            \/ \A e \in Range(queue) : e[2] > max_depth)

\* every call of crawl ends, by returning or by raising
CrawlEnds == <>(pc \in {"done", "raised"})

SeedUrls == {e[1] : e \in Range(SeedQueue(start_urls))}

\* the links of a page that the crawl's own filter accepts
InScopeLinks(url) == {n \in ResolvedLinks(url) : IsValidUrl(n, base_domain)}

\* the URLs within k hops of the seeds through the in-scope links of pages
\* that are served as 200 html
RECURSIVE Reach(_)
Reach(k) ==
    IF k = 0 THEN SeedUrls
    ELSE LET r == Reach(k - 1)
         IN  r \cup UNION {InScopeLinks(u) : u \in {v \in r : Status(site, v) = "ok"}}

Reachable == IF max_depth < 0 THEN {} ELSE Reach(max_depth)

\* C9: when crawl has returned, the number of fetched URLs is the smaller of
\* max_pages and the number of URLs within max_depth hops of the seeds.
C9_ExactFetchCount ==
    pc = "done" =>
        Cardinality(visited) = Min(max_pages, Cardinality(Reachable))

\* C10: when crawl has returned, every in-scope link of every page that was
\* fetched as 200 html is in the discovered set.
C10_LinksReported ==
    pc = "done" =>
        \A e \in Range(fetchLog) :
            Status(site, e[1]) = "ok" => InScopeLinks(e[1]) \subseteq discovered

\* C11: once main has classified, every URL of the discovered set has
\* exactly one result, each result is either covered or missing (its reason
\* says which), and no result is for a URL outside the discovered set.
C11_ClassificationTotality ==
    pc = "classified" =>
        /\ {crawl_results[i].url : i \in DOMAIN crawl_results} = discovered
        /\ Len(crawl_results) = Cardinality(discovered)
        /\ \A i \in DOMAIN crawl_results :
              /\ crawl_results[i].is_covered \in BOOLEAN
              /\ crawl_results[i].is_covered
                    <=> crawl_results[i].auto_reason # "Potentially missing"

C11_Witness ==
    /\ pc = "classified"
    /\ Cardinality(discovered \ visited) >= 1
    /\ Len(crawl_results) >= 3
    /\ \E i, j \in DOMAIN crawl_results :
          crawl_results[i].is_covered /\ ~crawl_results[j].is_covered

\* the literal entries main passes to crawl
TrackedSeeds == ExtractHttpUrls(FirstFive(after_urls))

\* C12: once main has classified, the result for the canonical form of every
\* tracked literal used as a seed is covered, by exact match.
C12_TrackedSeedsCovered ==
    pc = "classified" =>
        \A k \in DOMAIN TrackedSeeds :
            \A i \in DOMAIN crawl_results :
                crawl_results[i].url = NormalizeUrl(TrackedSeeds[k]) =>
                    /\ crawl_results[i].is_covered
                    /\ crawl_results[i].auto_reason = "Already added"

\* a rule whose body compiles and matches the path or the full string
RuleMatches(r, u) ==
    /\ RegexCompiles(r.body)
    /\ \/ RegexSearchPath(r.body, ParsedPath(u.path))
       \/ RegexSearchFull(r.body, u)

\* C13 as stated: a result whose URL matches no literal is covered iff some
\* tracked rule has a compilable body matching the URL's path or full string,
\* and the reason then names a matching rule.
C13_RegexRuleCoverage ==
    pc = "classified" =>
        \A i \in DOMAIN crawl_results :
            ~UrlMatchesExact(crawl_results[i].url, after_urls) =>
                /\ crawl_results[i].is_covered
                      <=> \E r \in Range(ExtractRegexPatterns(after_urls)) :
                              RuleMatches(r, crawl_results[i].url)
                /\ crawl_results[i].is_covered =>
                      /\ crawl_results[i].pattern \in Range(ExtractRegexPatterns(after_urls))
                      /\ RuleMatches(crawl_results[i].pattern, crawl_results[i].url)

\* C13 amended: the same, for the rules whose body is not empty.
C13_RegexRuleCoverageAmended ==
    pc = "classified" =>
        \A i \in DOMAIN crawl_results :
            ~UrlMatchesExact(crawl_results[i].url, after_urls) =>
                /\ crawl_results[i].is_covered
                      <=> \E r \in Range(ExtractRegexPatterns(after_urls)) :
                              r.body # "" /\ RuleMatches(r, crawl_results[i].url)
                /\ crawl_results[i].is_covered =>
                      /\ crawl_results[i].pattern \in Range(ExtractRegexPatterns(after_urls))
                      /\ crawl_results[i].pattern.body # ""
                      /\ RuleMatches(crawl_results[i].pattern, crawl_results[i].url)
                /\ ~crawl_results[i].is_covered =>
                      crawl_results[i].auto_reason = "Potentially missing"

C13_Witness ==
    /\ pc = "classified"
    /\ \E r \in Range(ExtractRegexPatterns(after_urls)) : r.body = ""
    /\ \E i, j \in DOMAIN crawl_results :
          /\ crawl_results[i].auto_reason = "Sub page - scraped with ev/cp regex"
          /\ ~crawl_results[j].is_covered

CompilingEntry(e) == e.kind = "rule" => RegexCompiles(e.body)

\* the tracked list without the rules whose body does not compile
WithoutBadRules(urls) == SelectSeq(urls, CompilingEntry)

\* C14: every result is the classification its URL gets from the tracked
\* list without the rules that do not compile.
C14_InvalidRegexIsolated ==
    pc = "classified" =>
        \A i \in DOMAIN crawl_results :
            LET c == ClassifyDiscoveredUrl(crawl_results[i].url,
                        WithoutBadRules(after_urls),
                        ExtractRegexPatterns(WithoutBadRules(after_urls)))
            IN  /\ crawl_results[i].is_covered = c.is_covered
                /\ crawl_results[i].auto_reason = c.reason
                /\ crawl_results[i].pattern = c.pattern

C14_Witness ==
    /\ pc = "classified"
    /\ \E k \in DOMAIN after_urls :
          /\ IsRuleEntry(after_urls[k])
          /\ ~RegexCompiles(after_urls[k].body)
          /\ \E i \in DOMAIN crawl_results, m \in DOMAIN after_urls :
                /\ m > k
                /\ crawl_results[i].pattern = after_urls[m]

\* C15: normalizing a normalized absolute http(s) URL changes nothing: every
\* absolute http(s) URL of the discovered set, each of which _normalize_url
\* returned, is its own normal form.
C15_NormalizationIdempotent ==
    \A u \in discovered : IsAbsoluteHttp(u) => NormalizeUrl(u) = u

\* in-scope URLs the crawl recorded and never fetched
UnfetchedInScope == {u \in discovered \ visited : IsValidUrl(u, base_domain)}

\* C16: when crawl has returned with in-scope URLs left unfetched, what main
\* shows is not the message of a completed crawl.
C16_EarlyStopReported ==
    (pc = "classified" /\ UnfetchedInScope # {}) =>
        status_text[1] # "Crawl complete!"

\* C17: the depths of the fetched pages never decrease in fetch order, and
\* when a GET is about to be issued no frontier entry and no earlier fetch
\* is of a greater, respectively smaller, depth than the page being fetched.
C17_LevelOrdering ==
    /\ \A i, j \in DOMAIN fetchLog :
          i < j => fetchLog[i][2] <= fetchLog[j][2]
    /\ pc = "fetch" =>
          /\ \A e \in Range(fetchLog) : e[2] <= current[2]
          /\ \A e \in Range(queue) : e[2] >= current[2]

\* pages of three successive depths have been fetched
C17_Witness ==
    /\ {0, 1, 2} \subseteq {e[2] : e \in Range(fetchLog)}
    /\ Len(fetchLog) >= 4

\* the position of the first href of the page on which urljoin raises, or
\* one past the last href
FirstRaise(url) ==
    LET hrefs == Links(site, url)
        bad == {i \in DOMAIN hrefs :
                   hrefs[i] # EmptyHref /\ UrlJoinRaises(url, hrefs[i])}
    IN  IF bad = {} THEN Len(hrefs) + 1 ELSE Least(bad)

\* the normalized targets of the hrefs the link loop gets to
ProcessedLinks(url) ==
    {NormalizeUrl(UrlJoin(url, Links(site, url)[i])) :
        i \in {j \in 1..(FirstRaise(url) - 1) : Links(site, url)[j] # EmptyHref}}

\* C18: every link the link loop gets to on a fetched page is accepted (is
\* in the discovered set) when it passes the filter for some domain of
\* AllowedDomainSet.
C18_MultiDomainScope ==
    \A e \in Range(fetchLog) :
        Status(site, e[1]) = "ok" =>
            \A n \in ProcessedLinks(e[1]) :
                (\E d \in AllowedDomainSet : IsValidUrl(n, d)) => n \in discovered

\* the domains of the literal entries of the tracked list
TrackedDomains ==
    {DomainOf(after_urls[k].url) :
        k \in {m \in DOMAIN after_urls :
                  IsHttpEntry(after_urls[m]) /\ ~after_urls[m].url.invalid}}

\* C19: when crawl has returned, every literal http entry of the tracked
\* list, wherever it stands, that can be normalized and passes the filter is
\* in the discovered set, recorded at depth 0.
C19_SeedSet ==
    pc \in {"done", "classified"} =>
        \A k \in DOMAIN after_urls :
            (/\ IsHttpEntry(after_urls[k])
             /\ ~after_urls[k].url.invalid
             /\ \E d \in TrackedDomains :
                   IsValidUrl(NormalizeUrl(after_urls[k].url), d))
            => /\ NormalizeUrl(after_urls[k].url) \in discovered
               /\ depthOf[NormalizeUrl(after_urls[k].url)] = 0

\* the ignored query parameters removed from the queries of the universe
WithoutIgnoredParams(q) == IF q = "utm_source=x" THEN "" ELSE q

\* C20: two URLs of the discovered set that differ only in ignored query
\* parameters are the same URL.
C20_TrackingParamsCollapsed ==
    \A u, v \in discovered :
        [u EXCEPT !.query = WithoutIgnoredParams(@)]
            = [v EXCEPT !.query = WithoutIgnoredParams(@)]
        => u = v

\* C21: no URL that came in through the link filter (a URL of the discovered
\* set or of the frontier that is not a seed) has a scheme other than http
\* or https.
C21_SchemeScoping ==
    \A u \in (discovered \cup QueuedUrls) \ SeedUrls :
        u.scheme \in {"http", "https"}

\* how many entries of the frontier q are for the URL u
QueueCount(q, u) == Cardinality({i \in DOMAIN q : q[i][1] = u})

\* every URL a frontier entry can be for
FrontierUniverse == {e[1] : e \in Range(queue)} \cup {e[1] : e \in Range(queue')}

\* C22: a step appends an entry for a URL to the frontier at most once, and
\* only if the URL was not in the discovered set before the step; so no URL is
\* placed in the frontier twice during a run.
C22_SingleEnqueue ==
    [][\A u \in FrontierUniverse :
          /\ QueueCount(queue', u) <= QueueCount(queue, u) + 1
          /\ QueueCount(queue', u) > QueueCount(queue, u) => u \notin discovered]_vars

\* C23: no GET is issued and no page is charged to the budget at a depth
\* greater than max_depth (the budget counts exactly the claimed pages), and
\* for max_depth >= 0 every frontier entry has depth <= max_depth.
C23_NoFetchBeyondMaxDepth ==
    /\ \A e \in Range(fetchLog) : e[2] <= max_depth
    /\ pc = "fetch" => current[2] <= max_depth
    /\ pages_crawled = Len(fetchLog) + (IF pc = "fetch" THEN 1 ELSE 0)
    /\ max_depth >= 0 => \A e \in Range(queue) : e[2] <= max_depth

C23_Witness ==
    /\ pc = "done"
    /\ max_depth >= 1
    /\ \E e \in Range(fetchLog) : e[2] = max_depth
    /\ \E u \in discovered : depthOf[u] = max_depth + 1
    /\ pages_crawled < max_pages

\* the pages fetched so far that were served as 200 html
FetchedOk == {e[1] : e \in {f \in Range(fetchLog) : Status(site, f[1]) = "ok"}}

\* the URLs within k hops of the seeds through the in-scope links of the
\* successfully fetched pages
RECURSIVE HopsWithin(_)
HopsWithin(k) ==
    IF k = 0 THEN SeedUrls
    ELSE LET r == HopsWithin(k - 1)
         IN  r \cup UNION {InScopeLinks(u) : u \in r \cap FetchedOk}

\* C24: the depth at which a URL is fetched is its shortest hop distance
\* from the seeds in the graph of the in-scope links of the successfully
\* fetched pages.
C24_DepthFidelity ==
    \A e \in Range(fetchLog) :
        /\ e[1] \in HopsWithin(e[2])
        /\ e[2] > 0 => e[1] \notin HopsWithin(e[2] - 1)

\* C25: the visited set and the URLs of the frontier are always subsets of
\* the discovered set, and no step of a crawl (a step that does not start
\* another crawl) removes a URL from the discovered set.
C25_FetchedQueuedDiscovered ==
    /\ [](visited \subseteq discovered /\ QueuedUrls \subseteq discovered)
    /\ [][pc' # "start" => discovered \subseteq discovered']_vars

C25_Witness ==
    /\ pc = "loop"
    /\ Cardinality(visited) >= 2
    /\ QueuedUrls \ visited # {}
    /\ Cardinality(discovered) >= 4

NonEmptyBodyEntry(e) == e.kind = "rule" => e.body # ""

\* the tracked list without the rules whose body is empty
WithoutEmptyRules(urls) == SelectSeq(urls, NonEmptyBodyEntry)

\* C26: no result names a rule with an empty body, and every result is the
\* classification its URL gets from the tracked list without the rules whose
\* body is empty.
C26_EmptyRuleCoversNothing ==
    pc = "classified" =>
        \A i \in DOMAIN crawl_results :
            LET c == ClassifyDiscoveredUrl(crawl_results[i].url,
                        WithoutEmptyRules(after_urls),
                        ExtractRegexPatterns(WithoutEmptyRules(after_urls)))
            IN  /\ crawl_results[i].pattern.kind = "rule"
                      => crawl_results[i].pattern.body # ""
                /\ crawl_results[i].is_covered = c.is_covered
                /\ crawl_results[i].auto_reason = c.reason
                /\ crawl_results[i].pattern = c.pattern

C26_Witness ==
    /\ pc = "classified"
    /\ \E k \in DOMAIN after_urls :
          IsRuleEntry(after_urls[k]) /\ after_urls[k].body = ""
    /\ \E i \in DOMAIN crawl_results : ~crawl_results[i].is_covered

\* `display_list`
DisplayList == DisplayListOf(crawl_results, ir_only)

\* `validated`: the keys of checklist_state with a validation chosen
Validated == Cardinality({i \in DOMAIN checklist_state : checklist_state[i] # Unselected})

\* C27: whenever the validation summary is shown, the number of validated
\* entries counted from the checklist state is at most the number of missing
\* URLs displayed.
C27_ValidationCountBounded ==
    (pc = "classified" /\ DisplayList # << >>) => Validated <= Len(DisplayList)

====
